---- MODULE Spec2Model ----
(***************************************************************************)
(* Agent Task Orchestrator with the Critic-gated revision loop.            *)
(*                                                                         *)
(* Modelled from backend/app/agents/orchestrator.py, agents/critic.py,     *)
(* api/routes/agents.py and the collaborators in services/ and utils/.     *)
(*                                                                         *)
(* Python values are tagged records: None, PyInt(n), PyStr(s) and dicts    *)
(* with a field "t".  A key that a dict does not hold reads as the value  *)
(* Missing.                                                                *)
(*                                                                         *)
(* _run_task is modelled statement by statement where it writes the Task   *)
(* store (start, store of the result, critic-score extraction, except      *)
(* handler); an agent's run is cut at its collaborator awaits.             *)
(***************************************************************************)
EXTENDS Integers, Sequences, FiniteSets, TLC

(* ----------------------------- bounds -------------------------------- *)

\* number of start_task calls in one behaviour
MaxTasks == 2

(* ------------------------ program constants -------------------------- *)

\* ContentCreationAgent.run: max_iterations = 3
max_iterations == 3
\* CriticAgent.__init__: self.max_iterations = 3
critic_max_iterations == 3
\* score of the forced pass
ForcedPassScore == 70
\* score of _mock_critique
MockScore == 85
\* competitors[:5]
CompetitorLimit == 5
\* total_opportunities > 20
OpportunityThreshold == 20

(* --------------------------- Python values --------------------------- *)

None == [t |-> "None"]
PyInt(n) == [t |-> "int", v |-> n]
PyStr(s) == [t |-> "str", v |-> s]
\* a JSON value that is not a mapping (a list, a string, a number)
NonMapping == [t |-> "list"]

IsNone(x) == x.t = "None"

\* Python truthiness of None, str, int and dict values
Truthy(x) ==
    CASE x.t = "None" -> FALSE
      [] x.t = "str" -> x.v /= ""
      [] x.t = "int" -> x.v /= 0
      [] OTHER -> TRUE

(* ------------------------------ enums -------------------------------- *)

AgentType ==
    {"seo_audit", "content_creation", "keyword_research",
     "competitive_analysis", "full_seo_strategy"}

\* what a caller of start_task can pass: the five kinds or any other string
AgentTypeInputs == AgentType \cup {"bogus_agent"}

PENDING == "pending"
RUNNING == "running"
COMPLETED == "completed"
FAILED == "failed"
TaskStatus == {PENDING, RUNNING, COMPLETED, FAILED}

TaskIds == 1..MaxTasks
\* an id no start_task call returns
UnknownId == MaxTasks + 1

(* --------------------------- the Critic ------------------------------ *)

forced_pass ==
    [t |-> "dict", score |-> PyInt(ForcedPassScore), passed |-> TRUE,
     feedback |-> PyStr("Max iterations reached. Manual review recommended."),
     hard_feedback |-> None]

_mock_critique ==
    [t |-> "dict", score |-> PyInt(MockScore), passed |-> FALSE,
     feedback |-> PyStr("Mock Critique: Add more specific examples and data points."),
     hard_feedback |-> None]

\* a JSON mapping in the shape the Critic's prompt asks for
EvalDict(score, passed) ==
    [t |-> "dict", score |-> PyInt(score), passed |-> passed,
     feedback |-> None, hard_feedback |-> PyStr("fix it")]

\* answers of the evaluation collaborator that parse to a mapping: a
\* rejection, a pass, and a pass claimed for a score below the threshold
EvalAnswers == {EvalDict(50, FALSE), EvalDict(95, TRUE), EvalDict(50, TRUE)}

\* What the evaluation collaborator does on one call:
\*   absent       ai_service.client is None
\*   raises       chat.completions.create raises
\*   unparseable  the answer is no JSON; extract_json raises JSONDecodeError
\*   json         the answer parses, to a mapping or to something else
EvalOutcomes ==
    {[k |-> "absent"], [k |-> "raises"], [k |-> "unparseable"]}
    \cup {[k |-> "json", v |-> a] : a \in EvalAnswers}
    \cup {[k |-> "json", v |-> NonMapping]}

\* extract_json: the parsed value, or a raise
extract_json(ev) ==
    IF ev.k = "json" THEN [raised |-> FALSE, v |-> ev.v]
    ELSE [raised |-> TRUE, v |-> None]

\* faulty variant: the forced pass starts one iteration late
critique_content_late(draft, iteration, ev) ==
    IF iteration > critic_max_iterations + 1
    THEN [raised |-> FALSE, v |-> forced_pass, called |-> FALSE]
    ELSE IF IsNone(draft)
    THEN [raised |-> TRUE, v |-> None, called |-> FALSE]
    ELSE IF ev.k = "absent"
    THEN [raised |-> FALSE, v |-> _mock_critique, called |-> FALSE]
    ELSE IF ev.k = "raises"
    THEN [raised |-> FALSE, v |-> _mock_critique, called |-> TRUE]
    ELSE IF extract_json(ev).raised
    THEN [raised |-> FALSE, v |-> _mock_critique, called |-> TRUE]
    ELSE [raised |-> FALSE, v |-> extract_json(ev).v, called |-> TRUE]

\* CriticAgent.critique_content.  draft[:4000] in the prompt is evaluated
\* before the try block, so a draft of None raises out of the Critic.
\* Result: [raised, v, called] with called = the collaborator was invoked.
critique_content(draft, iteration, ev) ==
    IF iteration > critic_max_iterations
    THEN [raised |-> FALSE, v |-> forced_pass, called |-> FALSE]
    ELSE IF IsNone(draft)
    THEN [raised |-> TRUE, v |-> None, called |-> FALSE]
    ELSE IF ev.k = "absent"
    THEN [raised |-> FALSE, v |-> _mock_critique, called |-> FALSE]
    ELSE IF ev.k = "raises"
    THEN [raised |-> FALSE, v |-> _mock_critique, called |-> TRUE]
    ELSE IF extract_json(ev).raised
    THEN [raised |-> FALSE, v |-> _mock_critique, called |-> TRUE]
    ELSE [raised |-> FALSE, v |-> extract_json(ev).v, called |-> TRUE]

(* ------------------------- agent collaborators ----------------------- *)

Return(v) == [raised |-> FALSE, v |-> v, msg |-> ""]
Raise(msg) == [raised |-> TRUE, v |-> None, msg |-> msg]

\* {"error": str(exception)}: the error marker of a Full Strategy slot
ErrorMarker(msg) == [t |-> "dict", kind |-> "error", error |-> msg]
\* a key a dict does not hold
Missing == [t |-> "missing"]

\* seo_auditor_service.full_audit: raises, or an audit with its issues,
\* one of them critical
FullAuditOutcomes ==
    {[k |-> "raises"]} \cup {[k |-> "ok", critical |-> c] : c \in {1}}

SEOAuditAgent_run(o) ==
    IF o.k = "raises" THEN Raise("audit collaborator failed")
    ELSE Return([t |-> "dict", kind |-> "seo_audit",
                 summary |-> [critical_issues |-> o.critical,
                              overall_health |->
                                  IF o.critical = 0 THEN "good"
                                  ELSE "needs_attention"]])

\* keyword_engine_service: raises, or discovered and long-tail keyword
\* lists, together one more than the threshold
KeywordOutcomes ==
    {[k |-> "raises"]}
    \cup {[k |-> "ok", discovered |-> OpportunityThreshold, long_tail |-> l] :
            l \in {1}}

KeywordResearchAgent_run(o) ==
    IF o.k = "raises" THEN Raise("keyword collaborator failed")
    ELSE Return([t |-> "dict", kind |-> "keyword_research",
                 total_opportunities |-> o.discovered + o.long_tail])

\* competitive_intel_service: compare_domains and find_content_gaps return
\* whatever JSON the completion holds; content_gaps is
\*   "gaps"     a mapping with a non-empty "gaps" entry
\*   "nogaps"   a mapping without one (the documented shape and the mock)
\*   "other"    JSON that is not a mapping
CompetitiveOutcomes ==
    {[k |-> "raises"]}
    \cup {[k |-> "ok", gaps |-> g] : g \in {"gaps", "nogaps", "other"}}

\* competitors[:5]
FirstFive(competitors) ==
    SubSeq(competitors, 1,
           IF Len(competitors) < CompetitorLimit THEN Len(competitors)
           ELSE CompetitorLimit)

CompetitiveAnalysisAgent_run(competitors, o) ==
    IF o.k = "raises" THEN Raise("competitor collaborator failed")
    ELSE Return([t |-> "dict", kind |-> "competitive_analysis",
                 competitor_analyses |-> FirstFive(competitors),
                 compared_with |-> competitors,
                 gaps_with |-> competitors,
                 content_gaps |-> o.gaps])

\* FullSEOStrategyAgent._generate_priority_actions on the three slots
URGENT == "URGENT: Fix critical SEO issues found in audit"
HIGH == "HIGH: You have 20+ keyword opportunities to target"
MEDIUM == "MEDIUM: Address content gaps vs competitors"
DEFAULT_ACTION == "Continue monitoring and creating quality content"

_generate_priority_actions(audit, kw, comp) ==
    IF comp.t = "dict" /\ comp.kind = "competitive_analysis"
       /\ comp.content_gaps = "other"
    THEN Raise("'list' object has no attribute 'get'")
    ELSE LET a1 == IF audit.t = "dict" /\ audit.kind = "seo_audit"
                      /\ audit.summary.critical_issues > 0
                   THEN <<URGENT>> ELSE <<>>
             a2 == IF kw.t = "dict" /\ kw.kind = "keyword_research"
                      /\ kw.total_opportunities > OpportunityThreshold
                   THEN <<HIGH>> ELSE <<>>
             a3 == IF comp.t = "dict" /\ comp.kind = "competitive_analysis"
                      /\ comp.content_gaps = "gaps"
                   THEN <<MEDIUM>> ELSE <<>>
             actions == a1 \o a2 \o a3
         IN Return(IF actions = <<>> THEN <<DEFAULT_ACTION>> ELSE actions)

(* ------------------------ content collaborators ---------------------- *)

\* content_engine_service.create_content: the completion's text, or
\* _mock_content when there is no client or anything raises (an empty or
\* blank completion divides by zero in keyword_density and is caught), so
\* draft.get("content", "") is always a non-empty text
InitialDraft == [t |-> "str", v |-> "draft", rev |-> 0]

\* content_engine_service.generate_content_brief returns extract_json of
\* the completion: a mapping, or JSON of another shape
BriefShapes == {"mapping", "other"}

\* content_engine_service.generate_titles: a list of mappings, or JSON of
\* another shape
TitlesShapes == {"list_of_mappings", "other"}

\* What the Reviser's completion service does on one call:
\*   absent   no client: the text comes back unchanged
\*   raises   the call raises: {"rewritten": text, "error": ...}
\*   text     a new text
\*   empty    an empty completion
\*   none     a completion without content (message.content is None)
ReviserOutcomes == {"absent", "raises", "text", "empty", "none"}

\* faulty variant: a failed completion call loses the text
rewrite_content_lossy(text, iteration, rv) ==
    CASE rv = "text" -> [t |-> "str", v |-> "draft", rev |-> iteration]
      [] rv = "empty" -> [t |-> "str", v |-> "", rev |-> 0]
      [] rv \in {"none", "raises"} -> None
      [] OTHER -> text

\* content_engine_service.rewrite_content(text, style)["rewritten"];
\* a new text is tagged with the round that produced it
rewrite_content(text, iteration, rv) ==
    CASE rv = "text" -> [t |-> "str", v |-> "draft", rev |-> iteration]
      [] rv = "empty" -> [t |-> "str", v |-> "", rev |-> 0]
      [] rv = "none" -> None
      [] OTHER -> text

\* the arguments of the Reviser call of one round:
\* rewrite_content(draft_content, style="improve"); the revision_prompt
\* built from the critique is not among them
ReviserArgs(draft_content, critique_record) ==
    <<draft_content, PyStr("improve")>>

\* faulty variant: the loop runs one round more
LoopContinues_extra(iteration) == iteration <= max_iterations + 1

\* while iteration <= max_iterations
LoopContinues(iteration) == iteration <= max_iterations

\* faulty variant: every record carries the iteration number 1
CriticLog_first(iteration, critique) ==
    [iteration |-> 1, score |-> critique.score,
     feedback |-> critique.feedback]

\* one record of critic_logs
CriticLog(iteration, critique) ==
    [iteration |-> iteration, score |-> critique.score,
     feedback |-> critique.feedback]

\* the mapping ContentCreationAgent.run returns:
\* "content": draft if draft_content else None
ContentResult(draft_content, critic_logs) ==
    [t |-> "dict", kind |-> "content_creation",
     content |-> IF Truthy(draft_content)
                 THEN [t |-> "dict", content |-> draft_content,
                       critic_history |-> critic_logs]
                 ELSE None,
     workflow_completed |-> TRUE]

(* --------------------------- parameters ------------------------------ *)

\* longest competitor list a caller passes
MaxCompetitors == 6

Competitors(n) == [i \in 1..n |-> i]
CompetitorLists == {Competitors(0), Competitors(MaxCompetitors)}

DefaultParams ==
    [generate_content |-> TRUE, target_keywords |-> FALSE,
     competitors |-> Competitors(0)]

\* the params a caller passes for an agent type (target_keywords is
\* TRUE for a non-empty list)
ParamsFor(agent_type) ==
    CASE agent_type = "content_creation" ->
            {[DefaultParams EXCEPT !.generate_content = g] : g \in BOOLEAN}
      [] agent_type = "competitive_analysis" ->
            {[DefaultParams EXCEPT !.competitors = c] : c \in CompetitorLists}
      [] agent_type = "full_seo_strategy" ->
            {[DefaultParams EXCEPT !.target_keywords = k, !.competitors = c] :
                k \in BOOLEAN, c \in CompetitorLists}
      [] OTHER -> {DefaultParams}

(* ------------------------------ state -------------------------------- *)

VARIABLES
    tasks,   \* _tasks: task id -> Task record
    unit,    \* task id -> the locals of the _run_task coroutine for it
             \* (nCritic, nReviser, verdicts count and record its calls)
    reply,   \* what the last start_task / get_task_status call returned
    probe    \* a direct call of a function of the program and its result

vars == <<tasks, unit, reply, probe>>

NoReply == [kind |-> "none"]

SubNames == {"audit", "kw", "comp"}
NoSubs == [n \in SubNames |-> [st |-> "none", out |-> Return(None)]]
NoSlots ==
    [seo_audit |-> Missing, keyword_research |-> Missing,
     competitive_analysis |-> Missing, content_strategy |-> Missing]

NewUnit ==
    [pc |-> "created", exc |-> "", result |-> None, gen |-> TRUE,
     iteration |-> 0, draft_content |-> None, critic_logs |-> <<>>,
     nCritic |-> 0, nReviser |-> 0, verdicts |-> <<>>,
     subs |-> NoSubs, slots |-> NoSlots]

\* the record start_task stores: "results" is None, and there are no
\* "error", "critic_score" and "critic_feedback" keys yet
NewTask(agent_type, params) ==
    [type |-> agent_type, status |-> PENDING, params |-> params,
     results |-> None, error |-> Missing, logs |-> <<>>,
     critic_score |-> Missing, critic_feedback |-> Missing]

NoProbe == [fn |-> "none"]

Init ==
    /\ tasks = <<>>
    /\ unit = <<>>
    /\ reply = NoReply
    /\ probe = NoProbe

\* faulty variant: an id generator that always yields the same id
uuid4_reused == CHOOSE i \in TaskIds : \A j \in TaskIds : i <= j

\* str(uuid.uuid4()): an id not issued before
uuid4 == CHOOSE i \in TaskIds \ DOMAIN tasks :
            \A j \in TaskIds \ DOMAIN tasks : i <= j

(* --------------------------- Orchestrator ---------------------------- *)

\* faulty variant: start_task awaits the first statements of _run_task
start_task_eager(agent_type, params) ==
    /\ Cardinality(DOMAIN tasks) < MaxTasks
    /\ LET task_id == uuid4
       IN /\ tasks' = (task_id :> [NewTask(agent_type, params) EXCEPT
                                    !.status = RUNNING,
                                    !.logs = <<"Started">>]) @@ tasks
          /\ unit' = (task_id :> [NewUnit EXCEPT !.pc = "dispatch"]) @@ unit
          /\ reply' = [kind |-> "start", id |-> task_id]
          /\ UNCHANGED probe

\* AgentOrchestrator.start_task: _tasks[task_id] = {...} is an assignment,
\* it replaces a record already stored under task_id; create_task only
\* schedules _run_task, and start_task has no await before it returns
start_task(agent_type, params) ==
    /\ Cardinality(DOMAIN tasks) < MaxTasks
    /\ LET task_id == uuid4
       IN /\ tasks' = (task_id :> NewTask(agent_type, params)) @@ tasks
          /\ unit' = (task_id :> NewUnit) @@ unit
          /\ reply' = [kind |-> "start", id |-> task_id]
          /\ UNCHANGED probe

\* the unit's locals change, the Task store does not
Step(id, u) ==
    /\ unit' = [unit EXCEPT ![id] = u]
    /\ UNCHANGED <<tasks, probe>>
    /\ reply' = NoReply

\* an exception leaves the agent's run and reaches the except clause
Throw(id, msg) == Step(id, [unit[id] EXCEPT !.pc = "except", !.exc = msg])

\* faulty variant: the first statements mark every Pending Task of the
\* store as Running, not only the unit's own
RunStart_all(id) ==
    /\ unit[id].pc = "created"
    /\ tasks' = [j \in DOMAIN tasks |->
                   IF j = id \/ tasks[j].status = PENDING
                   THEN [tasks[j] EXCEPT !.status = RUNNING,
                                         !.logs = Append(@, "Started")]
                   ELSE tasks[j]]
    /\ unit' = [unit EXCEPT ![id].pc = "dispatch"]
    /\ reply' = NoReply
    /\ UNCHANGED probe

\* _run_task, first two statements
RunStart(id) ==
    /\ unit[id].pc = "created"
    /\ tasks' = [tasks EXCEPT ![id].status = RUNNING,
                              ![id].logs = Append(@, "Started")]
    /\ unit' = [unit EXCEPT ![id].pc = "dispatch"]
    /\ reply' = NoReply
    /\ UNCHANGED probe

\* self.agents.get(agent_type) and the if/elif chain
AgentEntry(agent_type) ==
    CASE agent_type = "seo_audit" -> "audit_run"
      [] agent_type = "content_creation" -> "cc_begin"
      [] agent_type = "keyword_research" -> "kw_run"
      [] agent_type = "competitive_analysis" -> "comp_run"
      [] agent_type = "full_seo_strategy" -> "fs_begin"

\* faulty variant: an unknown type takes the chain's else branch,
\* result = {"error": "Unknown agent type"}, instead of raising
Dispatch_else(id) ==
    /\ unit[id].pc = "dispatch"
    /\ IF tasks[id].type \in AgentType
       THEN Step(id, [unit[id] EXCEPT
                        !.pc = AgentEntry(tasks[id].type),
                        !.gen = tasks[id].params.generate_content])
       ELSE Step(id, [unit[id] EXCEPT
                        !.pc = "store",
                        !.result = ErrorMarker("Unknown agent type")])

Dispatch(id) ==
    /\ unit[id].pc = "dispatch"
    /\ IF tasks[id].type \in AgentType
       THEN Step(id, [unit[id] EXCEPT
                        !.pc = AgentEntry(tasks[id].type),
                        !.gen = tasks[id].params.generate_content])
       ELSE Throw(id, "Unknown agent type: bogus_agent")

\* the agent's run returned `result`
Returned(id, result) ==
    Step(id, [unit[id] EXCEPT !.pc = "store", !.result = result])

Finish(id, r) == IF r.raised THEN Throw(id, r.msg) ELSE Returned(id, r.v)

\* _tasks[task_id]["results"] = result; status = COMPLETED; logs.append
StoreResult(id) ==
    /\ unit[id].pc = "store"
    /\ tasks' = [tasks EXCEPT ![id].results = unit[id].result,
                              ![id].status = COMPLETED,
                              ![id].logs = Append(@, "Completed")]
    /\ unit' = [unit EXCEPT ![id].pc = "extract"]
    /\ reply' = NoReply
    /\ UNCHANGED probe

\* isinstance(result, dict) and "critic_history" in result.get("content", {}):
\* "raise" when the "content" entry is None, "set" when it holds a non-empty
\* critic_history, "skip" otherwise
ExtractKind(result) ==
    IF result.kind /= "content_creation" THEN "skip"
    ELSE IF IsNone(result.content) THEN "raise"
    ELSE IF result.content.critic_history /= <<>> THEN "set"
    ELSE "skip"

\* faulty variant: the score and feedback of the first round, history[0]
ExtractCriticScore_first(id) ==
    /\ unit[id].pc = "extract"
    /\ LET result == unit[id].result
           kind == ExtractKind(result)
       IN CASE kind = "raise" ->
                 Throw(id, "argument of type 'NoneType' is not iterable")
            [] kind = "set" ->
                 LET history == result.content.critic_history
                     first_round == history[1]
                 IN /\ tasks' = [tasks EXCEPT
                                   ![id].critic_score = first_round.score,
                                   ![id].critic_feedback = first_round.feedback]
                    /\ unit' = [unit EXCEPT ![id].pc = "done"]
                    /\ reply' = NoReply
                    /\ UNCHANGED probe
            [] OTHER -> Step(id, [unit[id] EXCEPT !.pc = "done"])

\* the critic-score extraction after the store of the result
ExtractCriticScore(id) ==
    /\ unit[id].pc = "extract"
    /\ LET result == unit[id].result
           kind == ExtractKind(result)
       IN CASE kind = "raise" ->
                 Throw(id, "argument of type 'NoneType' is not iterable")
            [] kind = "set" ->
                 LET history == result.content.critic_history
                     last_round == history[Len(history)]
                 IN /\ tasks' = [tasks EXCEPT
                                   ![id].critic_score = last_round.score,
                                   ![id].critic_feedback = last_round.feedback]
                    /\ unit' = [unit EXCEPT ![id].pc = "done"]
                    /\ reply' = NoReply
                    /\ UNCHANGED probe
            [] OTHER -> Step(id, [unit[id] EXCEPT !.pc = "done"])

\* faulty variant: the except clause only logs and leaves the status as it is
HandleException_logonly(id) ==
    /\ unit[id].pc = "except"
    /\ tasks' = [tasks EXCEPT ![id].logs = Append(@, "Failed")]
    /\ unit' = [unit EXCEPT ![id].pc = "done"]
    /\ reply' = NoReply
    /\ UNCHANGED probe

\* faulty variant: the except clause replaces the logs by the failure entry
HandleException_resetlogs(id) ==
    /\ unit[id].pc = "except"
    /\ tasks' = [tasks EXCEPT ![id].status = FAILED,
                              ![id].error = PyStr(unit[id].exc),
                              ![id].logs = <<"Failed">>]
    /\ unit' = [unit EXCEPT ![id].pc = "done"]
    /\ reply' = NoReply
    /\ UNCHANGED probe

\* faulty variant: the except clause records a fixed text, not str(e)
HandleException_generic(id) ==
    /\ unit[id].pc = "except"
    /\ tasks' = [tasks EXCEPT ![id].status = FAILED,
                              ![id].error = PyStr("Task failed"),
                              ![id].logs = Append(@, "Failed")]
    /\ unit' = [unit EXCEPT ![id].pc = "done"]
    /\ reply' = NoReply
    /\ UNCHANGED probe

\* except Exception as e: status = FAILED; error = str(e); logs.append
HandleException(id) ==
    /\ unit[id].pc = "except"
    /\ tasks' = [tasks EXCEPT ![id].status = FAILED,
                              ![id].error = PyStr(unit[id].exc),
                              ![id].logs = Append(@, "Failed")]
    /\ unit' = [unit EXCEPT ![id].pc = "done"]
    /\ reply' = NoReply
    /\ UNCHANGED probe

\* faulty variant: _tasks[task_id], which raises KeyError for an unknown id
task_lookup_index(task_id) ==
    IF task_id \in DOMAIN tasks THEN tasks[task_id] ELSE [t |-> "KeyError"]

\* AgentOrchestrator.get_task_status: _tasks.get(task_id)
task_lookup(task_id) ==
    IF task_id \in DOMAIN tasks THEN tasks[task_id] ELSE None

\* GET /status/{task_id}: 404 when get_task_status returns a falsy value
get_task_status(task_id) ==
    /\ reply' = [kind |-> "status", id |-> task_id,
                 ret |-> task_lookup(task_id),
                 http |-> IF task_lookup(task_id) = None THEN 404 ELSE 200]
    /\ UNCHANGED <<tasks, unit, probe>>

(* ------------------------- single-step agents ------------------------ *)

\* SEOAuditAgent.run as the whole of a Task
SEOAuditTask(id) ==
    /\ unit[id].pc = "audit_run"
    /\ \E o \in FullAuditOutcomes : Finish(id, SEOAuditAgent_run(o))

\* KeywordResearchAgent.run as the whole of a Task
KeywordResearchTask(id) ==
    /\ unit[id].pc = "kw_run"
    /\ \E o \in KeywordOutcomes : Finish(id, KeywordResearchAgent_run(o))

\* CompetitiveAnalysisAgent.run as the whole of a Task
CompetitiveAnalysisTask(id) ==
    /\ unit[id].pc = "comp_run"
    /\ \E o \in CompetitiveOutcomes :
          Finish(id, CompetitiveAnalysisAgent_run(tasks[id].params.competitors, o))

(* ---------------------- ContentCreationAgent.run --------------------- *)

\* faulty variant: the draft and the loop do not look at generate_content
CC_Begin_alwaysdraft(id) ==
    /\ unit[id].pc = "cc_begin"
    /\ \E brief \in BriefShapes :
          IF brief = "other"
          THEN Throw(id, "list indices must be integers or slices, not str")
          ELSE Step(id, [unit[id] EXCEPT
                           !.draft_content = InitialDraft,
                           !.iteration = 1,
                           !.critic_logs = <<>>,
                           !.pc = "cc_critique"])

\* Steps 1-4 and the initial draft: brief["aeo_dna"] = aeo_dna raises on a
\* brief that is no mapping; with generate_content the loop starts at
\* iteration 1 on the initial draft
CC_Begin(id) ==
    /\ unit[id].pc = "cc_begin"
    /\ \E brief \in BriefShapes :
          IF brief = "other"
          THEN Throw(id, "list indices must be integers or slices, not str")
          ELSE IF unit[id].gen
          THEN Step(id, [unit[id] EXCEPT
                           !.draft_content = InitialDraft,
                           !.iteration = 1,
                           !.critic_logs = <<>>,
                           !.pc = IF LoopContinues(1) THEN "cc_critique"
                                  ELSE "cc_finish"])
          ELSE Step(id, [unit[id] EXCEPT !.pc = "cc_finish"])

\* faulty variant: the loop does not break on a passing critique
CC_Critique_nobreak(id) ==
    /\ unit[id].pc = "cc_critique"
    /\ \E ev \in EvalOutcomes :
          LET u == unit[id]
              r == critique_content(u.draft_content, u.iteration, ev)
          IN IF r.raised
             THEN Throw(id, "'NoneType' object is not subscriptable")
             ELSE IF r.v.t /= "dict"
             THEN Throw(id, "'list' object has no attribute 'get'")
             ELSE Step(id, [u EXCEPT
                              !.critic_logs =
                                  Append(@, CriticLog(u.iteration, r.v)),
                              !.nCritic = @ + 1,
                              !.verdicts = Append(@, r.v.passed),
                              !.pc = "cc_revise"])

\* one Critic call of the loop, the append to critic_logs and the
\* passed test; critique.get raises on a critique that is no mapping
CC_Critique(id) ==
    /\ unit[id].pc = "cc_critique"
    /\ \E ev \in EvalOutcomes :
          LET u == unit[id]
              r == critique_content(u.draft_content, u.iteration, ev)
          IN IF r.raised
             THEN Throw(id, "'NoneType' object is not subscriptable")
             ELSE IF r.v.t /= "dict"
             THEN Throw(id, "'list' object has no attribute 'get'")
             ELSE Step(id, [u EXCEPT
                              !.critic_logs =
                                  Append(@, CriticLog(u.iteration, r.v)),
                              !.nCritic = @ + 1,
                              !.verdicts = Append(@, r.v.passed),
                              !.pc = IF r.v.passed THEN "cc_finish"
                                     ELSE "cc_revise"])

\* faulty variant: the revision step forgets iteration += 1
CC_Revise_noincrement(id) ==
    /\ unit[id].pc = "cc_revise"
    /\ \E rv \in ReviserOutcomes :
          LET u == unit[id]
          IN Step(id, [u EXCEPT
                         !.draft_content =
                             rewrite_content(u.draft_content, u.iteration, rv),
                         !.nReviser = @ + 1,
                         !.pc = IF LoopContinues(u.iteration)
                                THEN "cc_critique" ELSE "cc_finish"])

\* the revision step: rewrite_content(draft_content, style="improve"),
\* draft_content = revision.get("rewritten", draft_content), iteration += 1
CC_Revise(id) ==
    /\ unit[id].pc = "cc_revise"
    /\ \E rv \in ReviserOutcomes :
          LET u == unit[id]
              args == ReviserArgs(u.draft_content,
                                  u.critic_logs[Len(u.critic_logs)])
          IN Step(id, [u EXCEPT
                         !.draft_content =
                             rewrite_content(args[1], u.iteration, rv),
                         !.iteration = @ + 1,
                         !.nReviser = @ + 1,
                         !.pc = IF LoopContinues(u.iteration + 1)
                                THEN "cc_critique" ELSE "cc_finish"])

\* Step 5 and the return: titles[0].get raises on titles of another shape.
\* Inside a Full Strategy run the result goes to the content_strategy slot.
CC_Finish(id) ==
    /\ unit[id].pc = "cc_finish"
    /\ \E titles \in TitlesShapes :
          LET u == unit[id]
              result == ContentResult(u.draft_content, u.critic_logs)
          IN IF titles = "other"
             THEN Throw(id, "'str' object has no attribute 'get'")
             ELSE IF tasks[id].type = "full_seo_strategy"
             THEN Step(id, [u EXCEPT !.slots.content_strategy = result,
                                     !.pc = "fs_finalize"])
             ELSE Returned(id, result)

(* ---------------------- FullSEOStrategyAgent.run --------------------- *)

\* the coroutines handed to asyncio.gather: audit, keyword research and,
\* if competitors is non-empty, competitive analysis
FS_Fanout(id) ==
    /\ unit[id].pc = "fs_begin"
    /\ Step(id, [unit[id] EXCEPT
                   !.subs = [n \in SubNames |->
                               IF n = "comp" /\ tasks[id].params.competitors = <<>>
                               THEN [st |-> "none", out |-> Return(None)]
                               ELSE [st |-> "running", out |-> Return(None)]],
                   !.pc = "fs_gather"])

SubDone(id, n, out) ==
    Step(id, [unit[id] EXCEPT !.subs[n] = [st |-> "done", out |-> out]])

FS_SubAudit(id) ==
    /\ unit[id].pc = "fs_gather"
    /\ unit[id].subs["audit"].st = "running"
    /\ \E o \in FullAuditOutcomes : SubDone(id, "audit", SEOAuditAgent_run(o))

FS_SubKeyword(id) ==
    /\ unit[id].pc = "fs_gather"
    /\ unit[id].subs["kw"].st = "running"
    /\ \E o \in KeywordOutcomes : SubDone(id, "kw", KeywordResearchAgent_run(o))

FS_SubCompetitive(id) ==
    /\ unit[id].pc = "fs_gather"
    /\ unit[id].subs["comp"].st = "running"
    /\ \E o \in CompetitiveOutcomes :
          SubDone(id, "comp",
                  CompetitiveAnalysisAgent_run(tasks[id].params.competitors, o))

\* faulty variant: the outcomes of the first two coroutines change places
gather_swapped(subs) ==
    <<subs["kw"].out, subs["audit"].out>>
    \o (IF subs["comp"].st = "none" THEN <<>> ELSE <<subs["comp"].out>>)

\* asyncio.gather(*tasks, return_exceptions=True): the outcomes in the
\* order the coroutines were passed
gather(subs) ==
    <<subs["audit"].out, subs["kw"].out>>
    \o (IF subs["comp"].st = "none" THEN <<>> ELSE <<subs["comp"].out>>)

\* completed[i] if not isinstance(completed[i], Exception)
\* else {"error": str(completed[i])}
Slot(outcome) == IF outcome.raised THEN ErrorMarker(outcome.msg) ELSE outcome.v

\* faulty variant: gather without return_exceptions=True, the first exception of a
\* sub-agent leaves FullSEOStrategyAgent.run
FS_Gathered_propagate(id) ==
    /\ unit[id].pc = "fs_gather"
    /\ \A n \in SubNames : unit[id].subs[n].st /= "running"
    /\ LET u == unit[id]
           completed == gather(u.subs)
           failed == {i \in DOMAIN completed : completed[i].raised}
       IN IF failed /= {}
          THEN Throw(id, completed[CHOOSE i \in failed : TRUE].msg)
          ELSE Step(id, [u EXCEPT
                      !.slots = [NoSlots EXCEPT
                                   !.seo_audit = Slot(completed[1]),
                                   !.keyword_research = Slot(completed[2]),
                                   !.competitive_analysis =
                                       IF Len(completed) > 2
                                       THEN Slot(completed[3]) ELSE Missing],
                      !.gen = FALSE,
                      !.pc = IF tasks[id].params.target_keywords
                             THEN "cc_begin" ELSE "fs_finalize"])

\* the slot assignments after gather, and the choice of the content step
FS_Gathered(id) ==
    /\ unit[id].pc = "fs_gather"
    /\ \A n \in SubNames : unit[id].subs[n].st /= "running"
    /\ LET u == unit[id]
           completed == gather(u.subs)
       IN Step(id, [u EXCEPT
                      !.slots = [NoSlots EXCEPT
                                   !.seo_audit = Slot(completed[1]),
                                   !.keyword_research = Slot(completed[2]),
                                   !.competitive_analysis =
                                       IF Len(completed) > 2
                                       THEN Slot(completed[3]) ELSE Missing],
                      !.gen = FALSE,
                      !.pc = IF tasks[id].params.target_keywords
                             THEN "cc_begin" ELSE "fs_finalize"])

\* results["recommendations"] = self._generate_priority_actions(results)
FS_Finalize(id) ==
    /\ unit[id].pc = "fs_finalize"
    /\ LET u == unit[id]
           r == _generate_priority_actions(u.slots.seo_audit,
                                           u.slots.keyword_research,
                                           u.slots.competitive_analysis)
       IN IF r.raised THEN Throw(id, r.msg)
          ELSE Returned(id, [t |-> "dict", kind |-> "full_seo_strategy",
                             seo_audit |-> u.slots.seo_audit,
                             keyword_research |-> u.slots.keyword_research,
                             competitive_analysis |-> u.slots.competitive_analysis,
                             content_strategy |-> u.slots.content_strategy,
                             recommendations |-> r.v])

(* ------------------------ direct Critic calls ------------------------ *)

\* largest iteration number a direct call passes
MaxProbeIteration == 5

\* drafts a caller can pass: texts, the empty text, None
ProbeDrafts ==
    {InitialDraft, rewrite_content(InitialDraft, 1, "text"),
     rewrite_content(InitialDraft, 1, "empty"), None}

\* critic_agent.critique_content(draft, brief, iteration), not yet called
InitCritic ==
    /\ tasks = <<>>
    /\ unit = <<>>
    /\ reply = NoReply
    /\ probe \in {[fn |-> "critique_content", draft |-> d, iteration |-> i,
                   ev |-> ev, returned |-> FALSE,
                   out |-> [raised |-> FALSE, v |-> None, called |-> FALSE]] :
                    d \in ProbeDrafts, i \in 1..MaxProbeIteration,
                    ev \in EvalOutcomes}

CritiqueCall ==
    /\ probe.fn = "critique_content"
    /\ ~probe.returned
    /\ probe' = [probe EXCEPT
                   !.returned = TRUE,
                   !.out = critique_content(probe.draft, probe.iteration, probe.ev)]
    /\ UNCHANGED <<tasks, unit, reply>>

(* ------------------ direct priority-action calls --------------------- *)

\* largest number of critical issues, and of long-tail keywords, a direct
\* call is given
MaxCritical == 2
MaxLongTail == 2

\* what results["seo_audit"] can hold: nothing, the error marker, or an
\* audit with 0..MaxCritical critical issues
AuditSlots ==
    {Missing, Slot(SEOAuditAgent_run([k |-> "raises"]))}
    \cup {Slot(SEOAuditAgent_run([k |-> "ok", critical |-> c])) :
            c \in 0..MaxCritical}

\* what results["keyword_research"] can hold: nothing, the error marker,
\* or a research with 19..22 opportunities
KeywordSlots ==
    {Missing, Slot(KeywordResearchAgent_run([k |-> "raises"]))}
    \cup {Slot(KeywordResearchAgent_run([k |-> "ok", discovered |-> d,
                                         long_tail |-> l])) :
            d \in {OpportunityThreshold - 1, OpportunityThreshold},
            l \in 0..MaxLongTail}

\* the answers of find_content_gaps: as in CompetitiveOutcomes, and
\*   "listed"   the shape its prompt asks for, a mapping whose
\*              "content_gaps" entry lists gaps and that has no "gaps" entry
\* ("nogaps" is then that shape with an empty list, as in the mock)
ContentGapsAnswers == {"gaps", "listed", "nogaps", "other"}

\* what results["competitive_analysis"] can hold: nothing (no
\* competitors), the error marker, or an analysis
CompetitiveSlots ==
    {Missing, Slot(CompetitiveAnalysisAgent_run(Competitors(1), [k |-> "raises"]))}
    \cup {Slot(CompetitiveAnalysisAgent_run(Competitors(1),
                                            [k |-> "ok", gaps |-> g])) :
            g \in ContentGapsAnswers}

\* _generate_priority_actions(results), not yet called
InitPriority ==
    /\ tasks = <<>>
    /\ unit = <<>>
    /\ reply = NoReply
    /\ probe \in {[fn |-> "_generate_priority_actions", audit |-> a,
                   kw |-> k, comp |-> c, returned |-> FALSE,
                   out |-> Return(None)] :
                    a \in AuditSlots, k \in KeywordSlots,
                    c \in CompetitiveSlots}

PriorityCall ==
    /\ probe.fn = "_generate_priority_actions"
    /\ ~probe.returned
    /\ probe' = [probe EXCEPT
                   !.returned = TRUE,
                   !.out = _generate_priority_actions(probe.audit, probe.kw,
                                                      probe.comp)]
    /\ UNCHANGED <<tasks, unit, reply>>

(* --------------------------- specifications -------------------------- *)

Submit == \E a \in AgentTypeInputs : \E p \in ParamsFor(a) : start_task(a, p)

\* the first start_task call of the process
SubmitFirst == tasks = <<>> /\ Submit

Read == \E i \in TaskIds \cup {UnknownId} : get_task_status(i)

\* one step of the execution unit asyncio.create_task made for `id`
UnitStep(id) ==
    \/ RunStart(id)
    \/ Dispatch(id)
    \/ SEOAuditTask(id)
    \/ KeywordResearchTask(id)
    \/ CompetitiveAnalysisTask(id)
    \/ CC_Begin(id)
    \/ CC_Critique(id)
    \/ CC_Revise(id)
    \/ CC_Finish(id)
    \/ FS_Fanout(id)
    \/ FS_SubAudit(id)
    \/ FS_SubKeyword(id)
    \/ FS_SubCompetitive(id)
    \/ FS_Gathered(id)
    \/ FS_Finalize(id)
    \/ StoreResult(id)
    \/ ExtractCriticScore(id)
    \/ HandleException(id)

Run == \E id \in DOMAIN tasks : UnitStep(id)

\* up to MaxTasks Tasks, their execution units interleaved
Next == Submit \/ Run

Spec == Init /\ [][Next]_vars

\* one Task, its execution unit interleaved with status reads
NextSingle == SubmitFirst \/ Run \/ Read

SpecSingle == Init /\ [][NextSingle]_vars

\* the event loop runs every execution unit that can take a step
FairSpecSingle ==
    SpecSingle /\ \A id \in TaskIds : WF_vars(id \in DOMAIN tasks /\ UnitStep(id))

\* direct calls of critique_content
NextCritic == CritiqueCall

SpecCritic == InitCritic /\ [][NextCritic]_vars

\* direct calls of _generate_priority_actions
NextPriority == PriorityCall

SpecPriority == InitPriority /\ [][NextPriority]_vars

(* ---------------------------- properties ----------------------------- *)

Terminal == {COMPLETED, FAILED}

\* a field of a Task record that is present and not None
NonNull(x) == x /= None /\ x /= Missing

\* C1: once a Task's status is Completed or Failed, no later step changes
\* it, the critic-score extraction after the store of the result included.
C1_TerminalStatusAbsorbing ==
    [][\A id \in DOMAIN tasks :
          tasks[id].status \in Terminal
              => tasks'[id].status = tasks[id].status]_vars

\* C2: in every reachable state no Task has both a non-null results and a
\* non-null error.
C2_ResultsErrorExclusive ==
    \A id \in DOMAIN tasks :
        ~(NonNull(tasks[id].results) /\ NonNull(tasks[id].error))

\* the execution unit for id has ended and left a terminal Task with its
\* payload
Settled(id) ==
    /\ id \in DOMAIN tasks
    /\ unit[id].pc = "done"
    /\ \/ tasks[id].status = COMPLETED /\ NonNull(tasks[id].results)
       \/ tasks[id].status = FAILED /\ tasks[id].error.t = "str"

\* C3: under weak fairness of the execution units, every Task created by
\* start_task eventually is Completed with a result or Failed with an error
\* string, and its execution unit has ended; none stays Pending or Running.
C3_EveryTaskSettles ==
    \A id \in TaskIds : (id \in DOMAIN tasks) ~> Settled(id)

C3_Witness ==
    \E id \in DOMAIN tasks :
        /\ Settled(id)
        /\ tasks[id].type = "content_creation"
        /\ unit[id].nReviser = 3

\* C4: a content-creation run makes at most max_iterations + 1 = 4 Critic
\* calls and at most max_iterations = 3 Reviser calls, whatever the
\* verdicts; inside the loop the Reviser calls made are iteration - 1 and
\* iteration stays within 1..3, so the loop ends.
C4_RevisionLoopBounded ==
    \A id \in DOMAIN unit :
        /\ unit[id].nCritic <= 4
        /\ unit[id].nReviser <= 3
        /\ unit[id].pc \in {"cc_critique", "cc_revise"}
              => /\ unit[id].iteration \in 1..3
                 /\ unit[id].nReviser = unit[id].iteration - 1

\* a Critic that never passed: three failed critiques, three revisions, and
\* the loop has been left
C4_Witness ==
    \E id \in DOMAIN unit :
        /\ unit[id].pc = "cc_finish"
        /\ unit[id].nCritic = 3
        /\ unit[id].nReviser = 3
        /\ \A i \in DOMAIN unit[id].verdicts : ~unit[id].verdicts[i]

\* C5: for every iteration number above 3, every draft and every state of
\* the evaluation collaborator, critique_content returns passed = true,
\* score 70 and the warning feedback, and does not call the collaborator.
C5_ForcedPass ==
    (probe.fn = "critique_content" /\ probe.returned /\ probe.iteration > 3)
        => /\ ~probe.out.raised
           /\ probe.out.v.t = "dict"
           /\ probe.out.v.passed = TRUE
           /\ probe.out.v.score = PyInt(70)
           /\ probe.out.v.feedback =
                  PyStr("Max iterations reached. Manual review recommended.")
           /\ ~probe.out.called

\* a call with iteration 4, a draft of None and a collaborator that would
\* have answered
C5_Witness ==
    /\ probe.fn = "critique_content"
    /\ probe.returned
    /\ probe.iteration = 4
    /\ probe.draft = None
    /\ probe.ev.k = "json"

\* the run of a content-creation Task returned a result with a draft, and
\* every critique of iterations 1..3 was a rejection with score 50
ScenarioB(id) ==
    /\ tasks[id].type = "content_creation"
    /\ unit[id].pc = "done"
    /\ unit[id].result /= None
    /\ Truthy(unit[id].draft_content)
    /\ unit[id].critic_logs /= <<>>
    /\ \A i \in DOMAIN unit[id].critic_logs :
          unit[id].critic_logs[i].iteration <= 3
              => /\ unit[id].critic_logs[i].score = PyInt(50)
                 /\ ~unit[id].verdicts[i]

\* C6: Scenario B: when the collaborator rejects every draft with score 50,
\* the run makes exactly 3 revisions, then calls the Critic with iteration
\* 4, which forces a pass; the Task ends Completed with critic_score 70.
C6_ScenarioB ==
    \A id \in DOMAIN tasks :
        ScenarioB(id)
            => /\ unit[id].nReviser = 3
               /\ unit[id].nCritic = 4
               /\ unit[id].critic_logs[Len(unit[id].critic_logs)].iteration = 4
               /\ tasks[id].status = COMPLETED
               /\ tasks[id].critic_score = PyInt(70)

\* the first Critic call of the run returned a passing critique
FirstPassed(id) == unit[id].verdicts /= <<>> /\ unit[id].verdicts[1]

\* C7: Scenario A: when the first critique passes, the Critic is called
\* once and the Reviser never, the draft stays the initial draft, the
\* history of the returned result has exactly one record, and the Task of a
\* run that returns its result ends Completed with that result.
C7_ScenarioA ==
    \A id \in DOMAIN tasks :
        (tasks[id].type = "content_creation" /\ FirstPassed(id))
            => /\ unit[id].nCritic = 1
               /\ unit[id].nReviser = 0
               /\ Len(unit[id].critic_logs) = 1
               /\ unit[id].draft_content = InitialDraft
               /\ unit[id].pc \notin {"cc_critique", "cc_revise"}
               /\ unit[id].result /= None
                    => /\ unit[id].result.content /= None
                       /\ unit[id].result.content.content = InitialDraft
                       /\ Len(unit[id].result.content.critic_history) = 1
               /\ (unit[id].pc = "done" /\ unit[id].result /= None)
                    => /\ tasks[id].status = COMPLETED
                       /\ tasks[id].results = unit[id].result
                       /\ ~NonNull(tasks[id].error)

C7_Witness ==
    \E id \in DOMAIN tasks :
        /\ tasks[id].type = "content_creation"
        /\ FirstPassed(id)
        /\ unit[id].pc = "done"
        /\ tasks[id].status = COMPLETED
        /\ tasks[id].results.content.critic_history[1].score = PyInt(95)

\* the result slot of a fanned-out sub-agent
SlotOf(slots, n) ==
    CASE n = "audit" -> slots.seo_audit
      [] n = "kw" -> slots.keyword_research
      [] n = "comp" -> slots.competitive_analysis

Submitted(id) == {n \in SubNames : unit[id].subs[n].st /= "none"}

\* C8: in a Full Strategy run, once gather has returned, the slot of every
\* sub-agent that raised holds the error marker and the slot of every
\* sub-agent that returned holds its result; the Task never is Failed with
\* a sub-agent's exception; and the Task of a run that returns its result
\* ends Completed with these slots (Scenario C).
C8_SubAgentFailureIsolated ==
    \A id \in DOMAIN tasks :
        (tasks[id].type = "full_seo_strategy"
            /\ unit[id].pc \notin {"created", "dispatch", "fs_begin", "fs_gather"})
            => /\ \A n \in Submitted(id) :
                     SlotOf(unit[id].slots, n) =
                         IF unit[id].subs[n].out.raised
                         THEN ErrorMarker(unit[id].subs[n].out.msg)
                         ELSE unit[id].subs[n].out.v
               /\ \A n \in Submitted(id) :
                     unit[id].subs[n].out.raised
                         => /\ unit[id].exc /= unit[id].subs[n].out.msg
                            /\ tasks[id].error /= PyStr(unit[id].subs[n].out.msg)
               /\ (unit[id].pc = "done" /\ unit[id].result /= None)
                     => /\ tasks[id].status = COMPLETED
                        /\ ~NonNull(tasks[id].error)
                        /\ \A n \in Submitted(id) :
                              SlotOf(tasks[id].results, n) =
                                  SlotOf(unit[id].slots, n)

\* Scenario C: competitive analysis raised, audit and keyword research
\* returned, the Task is Completed
C8_Witness ==
    \E id \in DOMAIN tasks :
        /\ tasks[id].type = "full_seo_strategy"
        /\ unit[id].pc = "done"
        /\ tasks[id].status = COMPLETED
        /\ unit[id].subs["comp"].st = "done"
        /\ unit[id].subs["comp"].out.raised
        /\ ~unit[id].subs["audit"].out.raised
        /\ ~unit[id].subs["kw"].out.raised
        /\ tasks[id].results.competitive_analysis.kind = "error"
        /\ tasks[id].results.seo_audit.kind = "seo_audit"
        /\ tasks[id].results.keyword_research.kind = "keyword_research"

\* C9, in a state: a Task of an unregistered agent type never has results
\* and never is Completed, and when its execution unit has ended it is
\* Failed with a non-empty error string
C9_State ==
    \A id \in DOMAIN tasks :
        tasks[id].type \notin AgentType
            => /\ tasks[id].results = None
               /\ tasks[id].status /= COMPLETED
               /\ unit[id].pc = "done"
                    => /\ tasks[id].status = FAILED
                       /\ tasks[id].error.t = "str"
                       /\ tasks[id].error.v /= ""

\* C9, in a step: a step of the execution unit of such a Task leaves every
\* other Task and every other execution unit as they were
C9_Step ==
    \A id \in DOMAIN tasks :
        (tasks[id].type \notin AgentType /\ unit'[id] /= unit[id])
            => \A j \in DOMAIN tasks \ {id} :
                  tasks'[j] = tasks[j] /\ unit'[j] = unit[j]

\* C9: Scenario E: a Task started with an agent_type that is none of the
\* five registered kinds ends Failed with a non-empty error string and null
\* results; the failure stays inside its execution unit, which ends
\* normally, and no other Task is affected.
C9_UnknownAgentTypeFails == [](C9_State) /\ [][C9_Step]_vars

C9_Witness ==
    \E id, j \in DOMAIN tasks :
        /\ tasks[id].type \notin AgentType
        /\ unit[id].pc = "done"
        /\ tasks[id].status = FAILED
        /\ tasks[j].type \in AgentType
        /\ tasks[j].status = COMPLETED

\* C10, in a state: the value a status call returned is the not-found
\* value (and the route answers 404) for an id start_task never returned,
\* and the Task's current record for a known id
C10_State ==
    reply.kind = "status"
        => IF reply.id \in DOMAIN tasks
           THEN reply.ret = tasks[reply.id] /\ reply.http = 200
           ELSE reply.ret = None /\ reply.http = 404

\* C10: Scenario D: get_task_status with an unknown id yields the not-found
\* value, with a known id the Task's current record, and leaves the Task
\* store unchanged.
C10_StatusLookup ==
    [](C10_State) /\ [][reply'.kind = "status" => tasks' = tasks]_vars

\* an unknown id asked of a store that holds a Task, and a known id
C10_Witness ==
    /\ reply.kind = "status"
    /\ tasks /= <<>>
    /\ reply.id \notin DOMAIN tasks
    /\ reply.ret = None

\* C11: every start_task call returns an id that no earlier call returned
\* (the ids returned so far are the keys of the store), adds exactly one
\* record under that id, and leaves every record already stored as it was.
C11_FreshIdNewRecord ==
    [][reply'.kind = "start"
         => /\ reply'.id \notin DOMAIN tasks
            /\ DOMAIN tasks' = DOMAIN tasks \cup {reply'.id}
            /\ \A j \in DOMAIN tasks : tasks'[j] = tasks[j]]_vars

\* a second start_task call has returned, for an agent type unlike the first
C11_Witness ==
    /\ reply.kind = "start"
    /\ Cardinality(DOMAIN tasks) = 2
    /\ \E j \in DOMAIN tasks :
          j /= reply.id /\ tasks[j].type /= tasks[reply.id].type

\* C12: when start_task returns its id, the record of that id is in the
\* store with status Pending, null results and empty logs, and the
\* execution unit made for it has not taken a step.
C12_SubmissionDoesNotWait ==
    reply.kind = "start"
        => /\ reply.id \in DOMAIN tasks
           /\ tasks[reply.id].status = PENDING
           /\ tasks[reply.id].results = None
           /\ tasks[reply.id].logs = <<>>
           /\ unit[reply.id] = NewUnit

\* start_task returns while the execution unit of an earlier Task is in the
\* middle of its run
C12_Witness ==
    /\ reply.kind = "start"
    /\ \E j \in DOMAIN tasks :
          /\ j /= reply.id
          /\ tasks[j].status = RUNNING
          /\ unit[j].pc = "cc_revise"

\* the status changes the lifecycle allows
Lifecycle == {<<PENDING, RUNNING>>, <<RUNNING, COMPLETED>>, <<RUNNING, FAILED>>}

\* C13: every status change of a Task is Pending to Running, Running to
\* Completed or Running to Failed; so a Task enters a terminal status once,
\* from Running, and never goes back.
C13_LifecycleTransitions ==
    [][\A id \in DOMAIN tasks :
          tasks'[id].status /= tasks[id].status
              => <<tasks[id].status, tasks'[id].status>> \in Lifecycle]_vars

\* C14: results is non-null only while the status is Completed; a Pending,
\* Running or Failed Task has null results.
C14_ResultsOnlyWhenCompleted ==
    \A id \in DOMAIN tasks :
        NonNull(tasks[id].results) => tasks[id].status = COMPLETED

\* the agent's run of this Task returned a result and the execution unit
\* has ended
RunReturned(id) == unit[id].pc = "done" /\ unit[id].result /= None

\* C15: for every registered agent type, when the agent's run returns a
\* result the Task ends Completed with results equal to it and no error,
\* also for a content-creation result whose content is null.
C15_ReturnedRunCompletes ==
    \A id \in DOMAIN tasks :
        (tasks[id].type \in AgentType /\ RunReturned(id))
            => /\ tasks[id].status = COMPLETED
               /\ tasks[id].results = unit[id].result
               /\ ~NonNull(tasks[id].error)

\* the run of this Task raised (it returned no result) and the execution
\* unit has ended
RunRaised(id) == unit[id].pc = "done" /\ unit[id].result = None

\* C16: when the agent's run raises, the execution unit catches it and ends
\* normally: the Task is Failed, error is the exception's message, the logs
\* are the start entry and a failure entry, and results are null.
C16_RaisedRunFails ==
    \A id \in DOMAIN tasks :
        /\ unit[id].pc = "except" /\ unit[id].result = None
              => tasks[id].status = RUNNING /\ tasks[id].results = None
        /\ RunRaised(id)
              => /\ tasks[id].status = FAILED
                 /\ unit[id].exc /= ""
                 /\ tasks[id].error = PyStr(unit[id].exc)
                 /\ tasks[id].logs = <<"Started", "Failed">>
                 /\ tasks[id].results = None

\* a content-creation run that raised after its revision loop, on titles
\* of an unexpected shape
C16_Witness ==
    \E id \in DOMAIN tasks :
        /\ RunRaised(id)
        /\ tasks[id].type = "content_creation"
        /\ unit[id].nReviser = 2
        /\ tasks[id].error = PyStr("'str' object has no attribute 'get'")

\* a direct call of critique_content with an iteration number within the
\* budget has returned or raised
CritiqueWithinBudget ==
    /\ probe.fn = "critique_content"
    /\ probe.returned
    /\ probe.iteration \in 1..3

\* C17: for iteration 1..3 and every response of the evaluation
\* collaborator, a Critique that critique_content returns has passed = true
\* only if its score is at least 90.
C17_PassedOnlyAboveThreshold ==
    (CritiqueWithinBudget /\ ~probe.out.raised /\ probe.out.v.t = "dict")
        => (probe.out.v.passed => probe.out.v.score.v >= 90)

\* the collaborator is absent, raises, or answers with something that is
\* no well-formed critique: text that does not parse, or JSON that is no
\* mapping
IllFormedEvaluation ==
    \/ probe.ev.k \in {"absent", "raises", "unparseable"}
    \/ probe.ev.k = "json" /\ probe.ev.v.t /= "dict"

\* C18: for iteration 1..3 and a draft text, when the collaborator is
\* absent, raises or answers with no well-formed critique, critique_content
\* does not raise and returns the fixed fallback Critique, passed = false.
C18_FallbackOnIllFormedEvaluation ==
    (CritiqueWithinBudget /\ probe.draft /= None /\ IllFormedEvaluation)
        => /\ ~probe.out.raised
           /\ probe.out.v = _mock_critique
           /\ probe.out.v.passed = FALSE

\* a result that carries a non-empty critique history
HasHistory(result) ==
    /\ result /= None
    /\ result.kind = "content_creation"
    /\ result.content /= None
    /\ result.content.critic_history /= <<>>

LastRound(result) ==
    result.content.critic_history[Len(result.content.critic_history)]

\* C19: a Task has critic_score / critic_feedback only if its stored result
\* carries a non-empty critique history, and then they are the score and
\* feedback of the last record; once the execution unit of a Task whose
\* result carries such a history has ended, the fields are set; Tasks of the
\* other agent types never have them.
C19_CriticFieldsFromLastRound ==
    \A id \in DOMAIN tasks :
        /\ (tasks[id].critic_score /= Missing
               \/ tasks[id].critic_feedback /= Missing)
              => /\ tasks[id].type = "content_creation"
                 /\ HasHistory(tasks[id].results)
                 /\ tasks[id].critic_score = LastRound(tasks[id].results).score
                 /\ tasks[id].critic_feedback =
                        LastRound(tasks[id].results).feedback
        /\ (unit[id].pc = "done" /\ HasHistory(unit[id].result))
              => tasks[id].critic_score /= Missing
        /\ tasks[id].type /= "content_creation"
              => /\ tasks[id].critic_score = Missing
                 /\ tasks[id].critic_feedback = Missing

\* a rejection with score 50, one revision, then a pass with score 95: the
\* Task holds the score of the second record
C19_Witness ==
    \E id \in DOMAIN tasks :
        /\ unit[id].pc = "done"
        /\ HasHistory(tasks[id].results)
        /\ Len(tasks[id].results.content.critic_history) = 2
        /\ tasks[id].results.content.critic_history[1].score = PyInt(50)
        /\ tasks[id].critic_score = PyInt(95)

\* C20, in a step: when the record or the execution unit of a Task changes,
\* it is that Task's execution unit that took the step, and the records and
\* execution units of all other Tasks are as before
C20_Step ==
    \A id \in DOMAIN tasks :
        (tasks'[id] /= tasks[id] \/ unit'[id] /= unit[id])
            => /\ unit'[id] /= unit[id]
               /\ \A j \in DOMAIN tasks \ {id} :
                     tasks'[j] = tasks[j] /\ unit'[j] = unit[j]

\* C20: with several Tasks interleaved, a Task's record is written only by
\* the execution unit started for its id, every step of a unit leaves all
\* other records unchanged, and there is exactly one unit per id.
C20_RecordsWrittenByOwnUnit ==
    [](DOMAIN unit = DOMAIN tasks) /\ [][C20_Step]_vars

\* two Tasks Running, each in the middle of its agent's run
C20_Witness ==
    \E id, j \in DOMAIN tasks :
        /\ id /= j
        /\ tasks[id].status = RUNNING /\ unit[id].pc = "cc_revise"
        /\ tasks[j].status = RUNNING /\ unit[j].pc = "fs_gather"

\* C21, in a step: the logs of a Task stay as they are or get one entry
\* appended at the end
C21_Step ==
    \A id \in DOMAIN tasks :
        \/ tasks'[id].logs = tasks[id].logs
        \/ /\ Len(tasks'[id].logs) = Len(tasks[id].logs) + 1
           /\ SubSeq(tasks'[id].logs, 1, Len(tasks[id].logs)) = tasks[id].logs

\* C21: a Task's logs only grow, by one entry at the end per step, no entry
\* is removed, reordered or altered, and the first entry of a non-empty log
\* is the start entry.
C21_LogsAppendOnly ==
    /\ [](\A id \in DOMAIN tasks :
             tasks[id].logs /= <<>> => tasks[id].logs[1] = "Started")
    /\ [][C21_Step]_vars

\* a Task whose run raised: the failure entry follows the start entry
C21_Witness ==
    \E id \in DOMAIN tasks :
        /\ unit[id].pc = "done"
        /\ tasks[id].type = "full_seo_strategy"
        /\ tasks[id].logs = <<"Started", "Failed">>

\* C22, in a state: one record per Critic invocation that returned a
\* Critique, the i-th with iteration = i
C22_State ==
    \A id \in DOMAIN unit :
        /\ Len(unit[id].critic_logs) = unit[id].nCritic
        /\ Len(unit[id].verdicts) = unit[id].nCritic
        /\ \A i \in DOMAIN unit[id].critic_logs :
              unit[id].critic_logs[i].iteration = i

\* C22, in a step: a Critic invocation appends the record of its Critique,
\* with the iteration number of the call, in the step that decides on
\* passed; every other step leaves the history as it is
C22_Step ==
    \A id \in DOMAIN unit :
        IF unit'[id].nCritic = unit[id].nCritic + 1
        THEN \E ev \in EvalOutcomes :
                LET c == critique_content(unit[id].draft_content,
                                          unit[id].iteration, ev).v
                IN /\ c.t = "dict"
                   /\ unit'[id].critic_logs =
                          Append(unit[id].critic_logs,
                                 [iteration |-> unit[id].iteration,
                                  score |-> c.score,
                                  feedback |-> c.feedback])
                   /\ unit'[id].verdicts = Append(unit[id].verdicts, c.passed)
        ELSE unit'[id].critic_logs = unit[id].critic_logs

\* C22: the critique history of a content-creation run has one record per
\* Critic invocation, in invocation order; the i-th record has iteration i
\* and the score and feedback of the i-th Critique.
C22_HistoryPerInvocation == [](C22_State) /\ [][C22_Step]_vars

\* three rounds with three different scores: the fallback's 85, a rejection
\* with 50, a pass with 95
C22_Witness ==
    \E id \in DOMAIN tasks :
        /\ unit[id].pc = "done"
        /\ HasHistory(tasks[id].results)
        /\ Len(tasks[id].results.content.critic_history) = 3
        /\ tasks[id].results.content.critic_history[1].score = PyInt(85)
        /\ tasks[id].results.content.critic_history[2].score = PyInt(50)
        /\ tasks[id].results.content.critic_history[3].score = PyInt(95)

\* the outcomes of the Reviser that are failures: no client, or the
\* completion call raised and rewrite_content returned its error result
ReviserFailures == {"absent", "raises"}

\* C23, in a state: a Reviser failure in a pending revision round hands the
\* current draft back
C23_State ==
    \A id \in DOMAIN unit :
        unit[id].pc = "cc_revise" =>
            \A rv \in ReviserFailures :
                rewrite_content(unit[id].draft_content, unit[id].iteration, rv)
                    = unit[id].draft_content

\* C23, in a step: a revision round does not raise, leaves the Task's
\* status alone and increments the iteration counter; the step from
\* "cc_revise" is the revision round
C23_Step ==
    \A id \in DOMAIN unit :
        /\ unit[id].pc = "cc_revise" /\ unit'[id] /= unit[id] =>
              unit'[id].nReviser = unit[id].nReviser + 1
        /\ unit'[id].nReviser = unit[id].nReviser + 1 =>
              /\ unit'[id].pc \in {"cc_critique", "cc_finish"}
              /\ unit'[id].iteration = unit[id].iteration + 1
              /\ \E rv \in ReviserOutcomes :
                    unit'[id].draft_content =
                        rewrite_content(unit[id].draft_content,
                                        unit[id].iteration, rv)
              /\ tasks'[id].status = tasks[id].status

\* C23: a failing Reviser (error result, or an exception inside
\* rewrite_content) does not fail the Task: the draft is kept for the next
\* round and the iteration counter is incremented.
C23_ReviserFailureKeepsDraft == [](C23_State) /\ [][C23_Step]_vars

\* three rounds whose revisions all failed: the Task is Completed with the
\* initial draft as its content
C23_Witness ==
    \E id \in DOMAIN tasks :
        /\ unit[id].pc = "done"
        /\ tasks[id].status = COMPLETED
        /\ unit[id].nReviser = 3
        /\ unit[id].iteration = 4
        /\ tasks[id].results.content /= None
        /\ tasks[id].results.content.content = InitialDraft

\* C24: in every revision round the Reviser is called with the current
\* draft and the feedback of the round's Critique.
C24_ReviserGetsFeedback ==
    \A id \in DOMAIN unit :
        unit[id].pc = "cc_revise" =>
            LET last == unit[id].critic_logs[Len(unit[id].critic_logs)]
                args == ReviserArgs(unit[id].draft_content, last)
            IN /\ \E i \in DOMAIN args : args[i] = unit[id].draft_content
               /\ \E i \in DOMAIN args : args[i] = last.feedback

\* C25: a competitive-analysis run uses at most 5 competitor domains, in
\* competitor_analyses, in the domain comparison and in the content-gap step.
C25_AtMostFiveCompetitorsUsed ==
    \A id \in DOMAIN tasks :
        (tasks[id].type = "competitive_analysis" /\ NonNull(tasks[id].results)) =>
            /\ Len(tasks[id].results.competitor_analyses) <= CompetitorLimit
            /\ Len(tasks[id].results.compared_with) <= CompetitorLimit
            /\ Len(tasks[id].results.gaps_with) <= CompetitorLimit

\* the slot reports content gaps: its content_gaps mapping lists some
ReportsGaps(comp) ==
    /\ comp.t = "dict"
    /\ comp.kind = "competitive_analysis"
    /\ comp.content_gaps \in {"gaps", "listed"}

\* the action list the three rules ask for
ExpectedActions(audit, kw, comp) ==
    LET e1 == IF audit.t = "dict" /\ audit.kind = "seo_audit"
                 /\ audit.summary.critical_issues >= 1
              THEN <<URGENT>> ELSE <<>>
        e2 == IF kw.t = "dict" /\ kw.kind = "keyword_research"
                 /\ kw.total_opportunities > 20
              THEN <<HIGH>> ELSE <<>>
        e3 == IF ReportsGaps(comp) THEN <<MEDIUM>> ELSE <<>>
    IN IF e1 \o e2 \o e3 = <<>> THEN <<DEFAULT_ACTION>> ELSE e1 \o e2 \o e3

\* C26: the action list a call returns has URGENT iff the audit slot reports
\* a critical issue, HIGH iff the keyword slot's total exceeds 20, MEDIUM
\* iff the competitive slot reports content gaps, in that order, nothing
\* for an error marker or a missing slot, and the default item otherwise.
C26_ActionListFromThresholds ==
    (probe.fn = "_generate_priority_actions" /\ probe.returned
     /\ ~probe.out.raised) =>
        probe.out.v = ExpectedActions(probe.audit, probe.kw, probe.comp)

\* the loop of a run has ended after three rejections
ThreeRejections(id) ==
    /\ unit[id].verdicts = <<FALSE, FALSE, FALSE>>
    /\ unit[id].pc \notin {"cc_critique", "cc_revise"}

\* C27, in a state
C27_State ==
    \A id \in DOMAIN unit :
        /\ unit[id].pc = "cc_critique" =>
              unit[id].iteration \in 1..critic_max_iterations
        /\ \A i \in DOMAIN unit[id].critic_logs :
              /\ unit[id].critic_logs[i].iteration \in 1..critic_max_iterations
              /\ unit[id].critic_logs[i].feedback /= forced_pass.feedback
        /\ ThreeRejections(id) =>
              /\ Len(unit[id].critic_logs) = 3
              /\ unit[id].nCritic = 3
              /\ unit[id].nReviser = 3
              /\ unit[id].iteration = 4
        /\ (ThreeRejections(id) /\ NonNull(tasks[id].results)
            /\ tasks[id].results.content /= None) =>
              /\ tasks[id].results.content.content = unit[id].draft_content
              /\ Len(tasks[id].results.content.critic_history) = 3
              /\ \A i \in 1..3 :
                    tasks[id].results.content.critic_history[i].score
                        /= PyInt(ForcedPassScore)

\* C27, in a step: the third revision is followed by the end of the loop,
\* not by a Critic call, and no step after it changes the draft
C27_Step ==
    \A id \in DOMAIN unit :
        /\ (unit[id].pc = "cc_revise" /\ unit[id].iteration = 3
            /\ unit'[id] /= unit[id]) =>
              /\ unit'[id].pc = "cc_finish"
              /\ unit'[id].nReviser = 3
        /\ unit[id].pc \notin {"cc_begin", "cc_revise"} =>
              unit'[id].draft_content = unit[id].draft_content

\* C27: every Critic call of ContentCreationAgent.run has an iteration
\* number in 1..3; the loop ends when the counter reaches 4 without another
\* Critic call, so after three rejections the history has 3 non-passing
\* records and the final draft is the third revision, which no round
\* evaluated.
C27_CriticCalledWithinThreeRounds == [](C27_State) /\ [][C27_Step]_vars

\* a Completed run after three rejections whose content is the text the
\* third revision produced
C27_Witness ==
    \E id \in DOMAIN tasks :
        /\ unit[id].pc = "done"
        /\ tasks[id].status = COMPLETED
        /\ ThreeRejections(id)
        /\ tasks[id].results.content /= None
        /\ tasks[id].results.content.content =
               rewrite_content(InitialDraft, 3, "text")

\* the slots of a Full Strategy run are assigned
SlotsAssigned(id) ==
    /\ tasks[id].type = "full_seo_strategy"
    /\ unit[id].pc \in {"cc_begin", "cc_finish", "fs_finalize", "store",
                        "extract"}

\* the outcome of one kind of sub-agent, as a slot holds it
OutcomeOf(slot, kind, msg) ==
    \/ slot.kind = kind
    \/ slot = ErrorMarker(msg)

\* C28: after gather, seo_audit holds the audit sub-agent's outcome,
\* keyword_research the keyword sub-agent's and competitive_analysis the
\* competitive sub-agent's, whatever the order in which they finished; the
\* competitive_analysis slot exists iff competitors were supplied.
C28_SlotsBySubmissionPosition ==
    \A id \in DOMAIN tasks :
        SlotsAssigned(id) =>
            LET u == unit[id]
            IN /\ u.slots.seo_audit = Slot(u.subs["audit"].out)
               /\ OutcomeOf(u.slots.seo_audit, "seo_audit",
                            "audit collaborator failed")
               /\ u.slots.keyword_research = Slot(u.subs["kw"].out)
               /\ OutcomeOf(u.slots.keyword_research, "keyword_research",
                            "keyword collaborator failed")
               /\ (u.slots.competitive_analysis /= Missing)
                      <=> (tasks[id].params.competitors /= <<>>)
               /\ u.slots.competitive_analysis /= Missing =>
                     /\ u.slots.competitive_analysis = Slot(u.subs["comp"].out)
                     /\ OutcomeOf(u.slots.competitive_analysis,
                                  "competitive_analysis",
                                  "competitor collaborator failed")
               /\ unit[id].pc = "extract" =>
                     /\ tasks[id].results.seo_audit = u.slots.seo_audit
                     /\ tasks[id].results.keyword_research
                            = u.slots.keyword_research
                     /\ tasks[id].results.competitive_analysis
                            = u.slots.competitive_analysis

\* three sub-agents with three different outcomes, each in its own slot
C28_Witness ==
    \E id \in DOMAIN tasks :
        /\ tasks[id].type = "full_seo_strategy"
        /\ tasks[id].status = COMPLETED
        /\ tasks[id].results.seo_audit = ErrorMarker("audit collaborator failed")
        /\ tasks[id].results.keyword_research.kind = "keyword_research"
        /\ tasks[id].results.competitive_analysis
               = ErrorMarker("competitor collaborator failed")

\* the exceptions the content-strategy step raises
ContentStepErrors ==
    {"list indices must be integers or slices, not str",
     "'str' object has no attribute 'get'"}

\* C29, in a state
C29_State ==
    \A id \in DOMAIN tasks :
        tasks[id].type = "full_seo_strategy" =>
            LET u == unit[id]
            IN /\ u.pc \in {"cc_begin", "cc_finish"} =>
                     /\ \A n \in SubNames : u.subs[n].st /= "running"
                     /\ tasks[id].params.target_keywords
                     /\ ~u.gen
               /\ u.pc \notin {"cc_critique", "cc_revise"}
               /\ u.nCritic = 0 /\ u.nReviser = 0
               /\ u.slots.content_strategy /= Missing =>
                     /\ tasks[id].params.target_keywords
                     /\ u.slots.content_strategy.content = None
               /\ NonNull(tasks[id].results) =>
                     ((tasks[id].results.content_strategy /= Missing)
                         <=> tasks[id].params.target_keywords)
               /\ (u.pc = "done" /\ u.exc \in ContentStepErrors) =>
                     /\ tasks[id].status = FAILED
                     /\ tasks[id].error = PyStr(u.exc)
                     /\ tasks[id].results = None

\* C29, in a step: after gather the content step runs iff target_keywords
\* is non-empty, and an exception of the content step reaches the except
\* clause of the Task
C29_Step ==
    \A id \in DOMAIN tasks :
        tasks[id].type = "full_seo_strategy" =>
            /\ (unit[id].pc = "fs_gather" /\ unit'[id].pc /= "fs_gather") =>
                  unit'[id].pc = IF tasks[id].params.target_keywords
                                 THEN "cc_begin" ELSE "fs_finalize"
            /\ (unit[id].pc \in {"cc_begin", "cc_finish"}
                /\ unit'[id].exc /= unit[id].exc) =>
                  /\ unit'[id].pc = "except"
                  /\ unit'[id].exc \in ContentStepErrors

\* C29: the content-strategy step of a Full Strategy run starts after all
\* fanned-out sub-agents have finished, runs iff target_keywords is
\* non-empty, calls neither the Critic nor the Reviser, and an exception
\* raised in it fails the whole Task.
C29_ContentStrategyStep == [](C29_State) /\ [][C29_Step]_vars

\* all sub-agents succeeded, the content step raised on the titles, the
\* Task is Failed
C29_Witness ==
    \E id \in DOMAIN tasks :
        /\ tasks[id].type = "full_seo_strategy"
        /\ unit[id].pc = "done"
        /\ tasks[id].status = FAILED
        /\ unit[id].exc = "'str' object has no attribute 'get'"
        /\ unit[id].slots.seo_audit.kind = "seo_audit"
        /\ unit[id].slots.keyword_research.kind = "keyword_research"

====
